---- MODULE Spec2Model ----
(***************************************************************************)
(* Model of the recipe store (useRecipeStore): the recipe collection, the  *)
(* selection, the UI flags and every store action.                         *)
(*                                                                         *)
(* Encoding.  Identifiers are integers: n >= 1 is the n-th value returned  *)
(* by crypto.randomUUID(), ForeignId is a string supplied by a caller that *)
(* the generator never returns, null is JavaScript's null.  Dates are      *)
(* integers read from the clock `now`.  Objects are records; an object     *)
(* spread {...a, ...b} is Spread(a, b).                                    *)
(*                                                                         *)
(* Bookkeeping.  `calls` counts the store calls made so far (at most       *)
(* MaxCalls are explored), `last` records the latest call, `nextId` the    *)
(* number of ids generated, `now` the wall clock.                          *)
(*                                                                         *)
(* `form` is the state of the creation form (CreateRecipeForm): the fields *)
(* the claims are about, the JSON text to import, its error message and    *)
(* the tab shown.  The strings of the form are sequences of characters.    *)
(***************************************************************************)
EXTENDS Integers, Sequences, FiniteSets, TLC

VARIABLES recipes, selectedRecipeId, isEditing, isCreating, searchTerm,
          filterCategory, isLoading, now, nextId, calls, last, form

vars == <<recipes, selectedRecipeId, isEditing, isCreating, searchTerm,
          filterCategory, isLoading, now, nextId, calls, last, form>>

ui == <<isEditing, isCreating, searchTerm, filterCategory, isLoading>>

\* ---------------------------------------------------------------- bounds
\* the number of store calls explored and the range of the clock
MaxCalls == 3
MaxTime == 1

\* ------------------------------------------------------------- encoding
null == -1
ForeignId == 0
nullCategory == "<null>"

\* {...a, ...b}: the keys of both, b's value where both have the key
Spread(a, b) ==
  [k \in (DOMAIN a) \cup (DOMAIN b) |-> IF k \in DOMAIN b THEN b[k] ELSE a[k]]

\* array.map(f) is [i \in 1..Len(s) |-> f(s[i])], array.filter(p) is
\* SelectSeq(s, p)

\* the ids occurring in an array of objects
Ids(s) == {s[i].id : i \in 1..Len(s)}

\* crypto.randomUUID(): a value no earlier call returned
randomUUID_repeats == IF nextId > 1 THEN nextId - 1 ELSE nextId
randomUUID == nextId

\* ids a caller can pass: a string of its own, or any id generated so far
CallerIds == {ForeignId} \cup (1..(nextId - 1))

\* ------------------------------------------------------- input domains
\* Omit<Ingredient, "id">, Omit<Instruction, "id">
IngredientData == {[name |-> "Flour"]}
InstructionData == {[stepNumber |-> 3, text |-> "Bake"]}

\* Omit<Recipe, "id" | "dateCreated" | "dateModified">: a recipe without
\* sub-entities, and one with an ingredient and an instruction whose ids
\* the caller chose
RecipeData ==
  {[title |-> "Apple Pie", ingredients |-> <<>>, instructions |-> <<>>,
    isFavorite |-> FALSE],
   [title |-> "Beef Stew",
    ingredients |-> <<[id |-> ForeignId, name |-> "Flour"]>>,
    instructions |-> <<[id |-> ForeignId, stepNumber |-> 1, text |-> "Mix"]>>,
    isFavorite |-> FALSE]}

\* recipes a form would not let through: no title, no ingredient and no
\* instruction; a blank title and an ingredient without a name
MalformedRecipeData ==
  {[title |-> "", ingredients |-> <<>>, instructions |-> <<>>,
    isFavorite |-> FALSE],
   [title |-> " ", ingredients |-> <<[id |-> ForeignId, name |-> ""]>>,
    instructions |-> <<>>, isFavorite |-> TRUE]}

\* Partial<Recipe>
PartialRecipe ==
  {[title |-> "Tart"], [dateModified |-> 0], [dateCreated |-> MaxTime]}
    \cup {[id |-> i] : i \in CallerIds}

\* Partial<Recipe> also takes { field: undefined }, written here as the
\* record [undefined |-> {field}]; a field that is undefined in an object is
\* a field the record does not have
PartialUndefined == {[undefined |-> {"ingredients"}],
                     [undefined |-> {"instructions"}]}
Undefined(data) == IF "undefined" \in DOMAIN data THEN data.undefined ELSE {}
Defined(data) == [k \in (DOMAIN data) \ {"undefined"} |-> data[k]]
Without(object, fields) == [k \in (DOMAIN object) \ fields |-> object[k]]

\* Partial<Ingredient>, Partial<Instruction>
PartialIngredient == {[name |-> "Sugar"]} \cup {[id |-> i] : i \in CallerIds}
PartialInstruction == {[stepNumber |-> 2]} \cup {[id |-> i] : i \in CallerIds}

\* values of searchTerm and of filterCategory
SearchTerms == {"", "pie"}
Categories == {nullCategory, "Dinner"}

\* the call just made: its name and arguments, whether its recipe id and
\* sub-entity id were found in the state it was made in, and whether its
\* recipe id was the selection
\* the list in a field of a recipe, none when the field is undefined
List(recipe, field) == IF field \in DOMAIN recipe THEN recipe[field] ELSE <<>>

Call(op, id, sub, data) ==
  [op |-> op, id |-> id, sub |-> sub, data |-> data,
   found |-> id \in Ids(recipes),
   subFound |-> \E i \in 1..Len(recipes) :
                   /\ recipes[i].id = id
                   /\ sub \in Ids(List(recipes[i], "ingredients"))
                              \cup Ids(List(recipes[i], "instructions")),
   selected |-> id = selectedRecipeId,
   threw |-> FALSE]

\* the call threw a TypeError
Thrown(call) == Spread(call, [threw |-> TRUE])

\* a recipe with the id has undefined in the field: reading the list to
\* spread, map or filter it throws
Throws(rs, recipeId, field) ==
  \E i \in 1..Len(rs) : rs[i].id = recipeId /\ field \notin DOMAIN rs[i]

NoData == <<>>

\* the creation form as it is mounted: empty, on the import tab, without
\* an error message
nullError == "<null>"
InitialForm ==
  [title |-> <<>>, ingredients |-> <<>>, instructions |-> <<>>,
   jsonInput |-> <<>>, jsonError |-> nullError, creationMode |-> "llm"]

\* ----------------------------------------------------------------- Init
Init ==
  /\ recipes = <<>>
  /\ selectedRecipeId = null
  /\ isEditing = FALSE
  /\ isCreating = FALSE
  /\ searchTerm = ""
  /\ filterCategory = nullCategory
  /\ isLoading = FALSE
  /\ now = 0
  /\ nextId = 1
  /\ calls = 0
  /\ last = Call("init", null, null, NoData)
  /\ form = InitialForm

\* the wall clock advances between calls
Tick ==
  /\ now < MaxTime
  /\ now' = now + 1
  /\ UNCHANGED <<form, recipes, selectedRecipeId, ui, nextId, calls, last>>

\* ------------------------------------------------- recipe CRUD operations
newRecipe_untitled(recipeData) ==
  Spread(Spread([id |-> randomUUID, dateCreated |-> now, dateModified |-> now],
                recipeData),
         [title |-> IF recipeData.title = "" THEN "Untitled"
                    ELSE recipeData.title])
newRecipe(recipeData) ==
  Spread([id |-> randomUUID, dateCreated |-> now, dateModified |-> now],
         recipeData)

createRecipe_appendsFirst(recipeData) ==
  /\ calls < MaxCalls
  /\ recipes' = Append(recipes, newRecipe(recipeData))
  /\ nextId' = nextId + 1
  /\ calls' = calls + 1
  /\ last' = Call("createRecipe", null, null, recipeData)
  /\ UNCHANGED <<form, selectedRecipeId, ui, now>>
createRecipe_prepends(recipeData) ==
  /\ calls < MaxCalls
  /\ recipes' = <<newRecipe(recipeData)>> \o recipes
  /\ selectedRecipeId' = newRecipe(recipeData).id
  /\ isCreating' = FALSE
  /\ nextId' = nextId + 1
  /\ calls' = calls + 1
  /\ last' = Call("createRecipe", null, null, recipeData)
  /\ UNCHANGED <<form, isEditing, searchTerm, filterCategory, isLoading, now>>
createRecipe(recipeData) ==
  /\ calls < MaxCalls
  /\ recipes' = Append(recipes, newRecipe(recipeData))
  /\ selectedRecipeId' = newRecipe(recipeData).id
  /\ isCreating' = FALSE
  /\ nextId' = nextId + 1
  /\ calls' = calls + 1
  /\ last' = Call("createRecipe", null, null, recipeData)
  /\ UNCHANGED <<form, isEditing, searchTerm, filterCategory, isLoading, now>>

updatedRecipe_keepsOld(recipe, recipeData) ==
  Spread(Spread(recipeData, recipe), [dateModified |-> now])
updatedRecipe_dataLast(recipe, recipeData) ==
  Spread(Spread(recipe, [dateModified |-> now]), recipeData)
updatedRecipe(recipe, recipeData) ==
  Spread(Without(Spread(recipe, Defined(recipeData)), Undefined(recipeData)),
         [dateModified |-> now])

updateRecipeOp(rs, id, recipeData) ==
  LET f(recipe) == IF recipe.id = id THEN updatedRecipe(recipe, recipeData)
                   ELSE recipe
  IN [i \in 1..Len(rs) |-> f(rs[i])]

updateRecipe_selects(id, recipeData) ==
  /\ calls < MaxCalls
  /\ recipes' = updateRecipeOp(recipes, id, recipeData)
  /\ selectedRecipeId' = id
  /\ calls' = calls + 1
  /\ last' = Call("updateRecipe", id, null, recipeData)
  /\ UNCHANGED <<form, ui, now, nextId>>

updateRecipe(id, recipeData) ==
  /\ calls < MaxCalls
  /\ recipes' = updateRecipeOp(recipes, id, recipeData)
  /\ calls' = calls + 1
  /\ last' = Call("updateRecipe", id, null, recipeData)
  /\ UNCHANGED <<form, selectedRecipeId, ui, now, nextId>>

deleteRecipeOp_inverted(rs, id) ==
  LET keep(recipe) == recipe.id = id IN SelectSeq(rs, keep)

deleteRecipeOp(rs, id) ==
  LET keep(recipe) == recipe.id # id IN SelectSeq(rs, keep)

deleteSelection_keeps(sel, id) == sel
deleteSelection(sel, id) == IF sel = id THEN null ELSE sel

deleteRecipe(id) ==
  /\ calls < MaxCalls
  /\ recipes' = deleteRecipeOp(recipes, id)
  /\ selectedRecipeId' = deleteSelection(selectedRecipeId, id)
  /\ calls' = calls + 1
  /\ last' = Call("deleteRecipe", id, null, NoData)
  /\ UNCHANGED <<form, ui, now, nextId>>

\* ------------------------------------------------- ingredient management
newIngredient_foreign(ingredientData) ==
  Spread([id |-> ForeignId], ingredientData)
newIngredient(ingredientData) == Spread([id |-> randomUUID], ingredientData)

addIngredientOp(rs, recipeId, ingredientData) ==
  LET f(recipe) ==
        IF recipe.id = recipeId
        THEN Spread(recipe,
               [ingredients |-> Append(recipe.ingredients,
                                       newIngredient(ingredientData)),
                dateModified |-> now])
        ELSE recipe
  IN [i \in 1..Len(rs) |-> f(rs[i])]

addIngredient(recipeId, ingredientData) ==
  /\ calls < MaxCalls
  /\ IF Throws(recipes, recipeId, "ingredients")
     THEN /\ recipes' = recipes
          /\ last' = Thrown(Call("addIngredient", recipeId, null, ingredientData))
     ELSE /\ recipes' = addIngredientOp(recipes, recipeId, ingredientData)
          /\ last' = Call("addIngredient", recipeId, null, ingredientData)
  /\ nextId' = nextId + 1
  /\ calls' = calls + 1
  /\ UNCHANGED <<form, selectedRecipeId, ui, now>>

updateIngredientOp_everyRecipe(rs, recipeId, ingredientId, data) ==
  LET g(ingredient) == IF ingredient.id = ingredientId
                       THEN Spread(ingredient, data) ELSE ingredient
      f(recipe) ==
        Spread(recipe, [ingredients |-> [j \in 1..Len(recipe.ingredients) |->
                                   g(recipe.ingredients[j])],
                        dateModified |-> now])
  IN [i \in 1..Len(rs) |-> f(rs[i])]

updateIngredientOp(rs, recipeId, ingredientId, data) ==
  LET g(ingredient) == IF ingredient.id = ingredientId
                       THEN Spread(ingredient, data) ELSE ingredient
      f(recipe) ==
        IF recipe.id = recipeId
        THEN Spread(recipe, [ingredients |-> [j \in 1..Len(recipe.ingredients) |->
                                   g(recipe.ingredients[j])],
                             dateModified |-> now])
        ELSE recipe
  IN [i \in 1..Len(rs) |-> f(rs[i])]

updateIngredient(recipeId, ingredientId, data) ==
  /\ calls < MaxCalls
  /\ IF Throws(recipes, recipeId, "ingredients")
     THEN /\ recipes' = recipes
          /\ last' = Thrown(Call("updateIngredient", recipeId, ingredientId, data))
     ELSE /\ recipes' = updateIngredientOp(recipes, recipeId, ingredientId, data)
          /\ last' = Call("updateIngredient", recipeId, ingredientId, data)
  /\ calls' = calls + 1
  /\ UNCHANGED <<form, selectedRecipeId, ui, now, nextId>>

removeIngredientOp(rs, recipeId, ingredientId) ==
  LET keep(ingredient) == ingredient.id # ingredientId
      f(recipe) ==
        IF recipe.id = recipeId
        THEN Spread(recipe, [ingredients |-> SelectSeq(recipe.ingredients, keep),
                             dateModified |-> now])
        ELSE recipe
  IN [i \in 1..Len(rs) |-> f(rs[i])]

removeIngredient(recipeId, ingredientId) ==
  /\ calls < MaxCalls
  /\ IF Throws(recipes, recipeId, "ingredients")
     THEN /\ recipes' = recipes
          /\ last' = Thrown(Call("removeIngredient", recipeId, ingredientId, NoData))
     ELSE /\ recipes' = removeIngredientOp(recipes, recipeId, ingredientId)
          /\ last' = Call("removeIngredient", recipeId, ingredientId, NoData)
  /\ calls' = calls + 1
  /\ UNCHANGED <<form, selectedRecipeId, ui, now, nextId>>

\* ------------------------------------------------ instruction management
newInstruction(instructionData) == Spread([id |-> randomUUID], instructionData)

addInstructionOp_numbers(rs, recipeId, instructionData) ==
  LET f(recipe) ==
        IF recipe.id = recipeId
        THEN Spread(recipe,
               [instructions |->
                  Append(recipe.instructions,
                         Spread(newInstruction(instructionData),
                                [stepNumber |-> Len(recipe.instructions) + 1])),
                dateModified |-> now])
        ELSE recipe
  IN [i \in 1..Len(rs) |-> f(rs[i])]
addInstructionOp(rs, recipeId, instructionData) ==
  LET f(recipe) ==
        IF recipe.id = recipeId
        THEN Spread(recipe,
               [instructions |-> Append(recipe.instructions,
                                        newInstruction(instructionData)),
                dateModified |-> now])
        ELSE recipe
  IN [i \in 1..Len(rs) |-> f(rs[i])]

addInstruction(recipeId, instructionData) ==
  /\ calls < MaxCalls
  /\ IF Throws(recipes, recipeId, "instructions")
     THEN /\ recipes' = recipes
          /\ last' = Thrown(Call("addInstruction", recipeId, null, instructionData))
     ELSE /\ recipes' = addInstructionOp(recipes, recipeId, instructionData)
          /\ last' = Call("addInstruction", recipeId, null, instructionData)
  /\ nextId' = nextId + 1
  /\ calls' = calls + 1
  /\ UNCHANGED <<form, selectedRecipeId, ui, now>>

updateInstructionOp(rs, recipeId, instructionId, data) ==
  LET g(instruction) == IF instruction.id = instructionId
                        THEN Spread(instruction, data) ELSE instruction
      f(recipe) ==
        IF recipe.id = recipeId
        THEN Spread(recipe, [instructions |-> [j \in 1..Len(recipe.instructions) |->
                                    g(recipe.instructions[j])],
                             dateModified |-> now])
        ELSE recipe
  IN [i \in 1..Len(rs) |-> f(rs[i])]

updateInstruction(recipeId, instructionId, data) ==
  /\ calls < MaxCalls
  /\ IF Throws(recipes, recipeId, "instructions")
     THEN /\ recipes' = recipes
          /\ last' = Thrown(Call("updateInstruction", recipeId, instructionId, data))
     ELSE /\ recipes' = updateInstructionOp(recipes, recipeId, instructionId, data)
          /\ last' = Call("updateInstruction", recipeId, instructionId, data)
  /\ calls' = calls + 1
  /\ UNCHANGED <<form, selectedRecipeId, ui, now, nextId>>

removeInstructionOp(rs, recipeId, instructionId) ==
  LET keep(instruction) == instruction.id # instructionId
      f(recipe) ==
        IF recipe.id = recipeId
        THEN Spread(recipe,
               [instructions |-> SelectSeq(recipe.instructions, keep),
                dateModified |-> now])
        ELSE recipe
  IN [i \in 1..Len(rs) |-> f(rs[i])]

removeInstruction(recipeId, instructionId) ==
  /\ calls < MaxCalls
  /\ IF Throws(recipes, recipeId, "instructions")
     THEN /\ recipes' = recipes
          /\ last' = Thrown(Call("removeInstruction", recipeId, instructionId, NoData))
     ELSE /\ recipes' = removeInstructionOp(recipes, recipeId, instructionId)
          /\ last' = Call("removeInstruction", recipeId, instructionId, NoData)
  /\ calls' = calls + 1
  /\ UNCHANGED <<form, selectedRecipeId, ui, now, nextId>>

\* ------------------------------------------------------------ UI actions
selectRecipe_keepsEditing(id) ==
  /\ calls < MaxCalls
  /\ selectedRecipeId' = id
  /\ calls' = calls + 1
  /\ last' = Call("selectRecipe", id, null, NoData)
  /\ UNCHANGED <<form, recipes, isEditing, isCreating, searchTerm, filterCategory,
                 isLoading, now, nextId>>
selectRecipe(id) ==
  /\ calls < MaxCalls
  /\ selectedRecipeId' = id
  /\ isEditing' = FALSE
  /\ calls' = calls + 1
  /\ last' = Call("selectRecipe", id, null, NoData)
  /\ UNCHANGED <<form, recipes, isCreating, searchTerm, filterCategory, isLoading,
                 now, nextId>>

startEditing ==
  /\ calls < MaxCalls
  /\ isEditing' = TRUE
  /\ calls' = calls + 1
  /\ last' = Call("startEditing", null, null, NoData)
  /\ UNCHANGED <<form, recipes, selectedRecipeId, isCreating, searchTerm,
                 filterCategory, isLoading, now, nextId>>

finishEditing ==
  /\ calls < MaxCalls
  /\ isEditing' = FALSE
  /\ calls' = calls + 1
  /\ last' = Call("finishEditing", null, null, NoData)
  /\ UNCHANGED <<form, recipes, selectedRecipeId, isCreating, searchTerm,
                 filterCategory, isLoading, now, nextId>>

startCreating ==
  /\ calls < MaxCalls
  /\ isCreating' = TRUE
  /\ selectedRecipeId' = null
  /\ calls' = calls + 1
  /\ last' = Call("startCreating", null, null, NoData)
  /\ UNCHANGED <<form, recipes, isEditing, searchTerm, filterCategory, isLoading,
                 now, nextId>>

cancelCreating ==
  /\ calls < MaxCalls
  /\ isCreating' = FALSE
  /\ calls' = calls + 1
  /\ last' = Call("cancelCreating", null, null, NoData)
  /\ UNCHANGED <<form, recipes, selectedRecipeId, isEditing, searchTerm,
                 filterCategory, isLoading, now, nextId>>

setSearchTerm(term) ==
  /\ calls < MaxCalls
  /\ searchTerm' = term
  /\ calls' = calls + 1
  /\ last' = Call("setSearchTerm", null, null, term)
  /\ UNCHANGED <<form, recipes, selectedRecipeId, isEditing, isCreating,
                 filterCategory, isLoading, now, nextId>>

setFilterCategory(category) ==
  /\ calls < MaxCalls
  /\ filterCategory' = category
  /\ calls' = calls + 1
  /\ last' = Call("setFilterCategory", null, null, category)
  /\ UNCHANGED <<form, recipes, selectedRecipeId, isEditing, isCreating,
                 searchTerm, isLoading, now, nextId>>

\* ------------------------------------------------------- utility actions
toggleFavoriteOp_sets(rs, id) ==
  LET f(recipe) ==
        IF recipe.id = id
        THEN Spread(recipe, [isFavorite |-> TRUE, dateModified |-> now])
        ELSE recipe
  IN [i \in 1..Len(rs) |-> f(rs[i])]
toggleFavoriteOp(rs, id) ==
  LET f(recipe) ==
        IF recipe.id = id
        THEN Spread(recipe, [isFavorite |-> ~recipe.isFavorite,
                             dateModified |-> now])
        ELSE recipe
  IN [i \in 1..Len(rs) |-> f(rs[i])]

toggleFavorite_stale(id) ==
  /\ calls < MaxCalls
  /\ recipes' = toggleFavoriteOp(IF "before" \in DOMAIN last
                                 THEN last.before ELSE recipes, id)
  /\ calls' = calls + 1
  /\ last' = Call("toggleFavorite", id, null, NoData)
  /\ UNCHANGED <<form, selectedRecipeId, ui, now, nextId>>
toggleFavorite(id) ==
  /\ calls < MaxCalls
  /\ recipes' = toggleFavoriteOp(recipes, id)
  /\ calls' = calls + 1
  /\ last' = Call("toggleFavorite", id, null, NoData)
  /\ UNCHANGED <<form, selectedRecipeId, ui, now, nextId>>

\* ------------------------------------------------------------ Next, Spec
Next ==
  \/ Tick
  \/ \E d \in RecipeData : createRecipe(d)
  \/ \E id \in CallerIds, d \in PartialRecipe : updateRecipe(id, d)
  \/ \E id \in CallerIds : deleteRecipe(id)
  \/ \E id \in CallerIds, d \in IngredientData : addIngredient(id, d)
  \/ \E id \in CallerIds, sub \in CallerIds, d \in PartialIngredient :
        updateIngredient(id, sub, d)
  \/ \E id \in CallerIds, sub \in CallerIds : removeIngredient(id, sub)
  \/ \E id \in CallerIds, d \in InstructionData : addInstruction(id, d)
  \/ \E id \in CallerIds, sub \in CallerIds, d \in PartialInstruction :
        updateInstruction(id, sub, d)
  \/ \E id \in CallerIds, sub \in CallerIds : removeInstruction(id, sub)
  \/ \E id \in CallerIds \cup {null} : selectRecipe(id)
  \/ startEditing
  \/ finishEditing
  \/ startCreating
  \/ cancelCreating
  \/ \E term \in SearchTerms : setSearchTerm(term)
  \/ \E category \in Categories : setFilterCategory(category)
  \/ \E id \in CallerIds : toggleFavorite(id)

Spec == Init /\ [][Next]_vars

\* ---------------------------------------------------------- selectors
\* JavaScript truthiness of a nullable id, of a string and of a nullable
\* category: null and the empty string are false.  Among the ids the empty
\* string is EmptyId, an id like any other string; a searched string is the
\* sequence of its characters.
EmptyId == -2
TruthyId(id) == id # null /\ id # EmptyId
TruthyString(str) == str # <<>>
TruthyCategory(category) == category # nullCategory /\ category # ""

\* array.find: the first element with the id, <<>> for undefined
Find(rs, id) ==
  IF \E i \in 1..Len(rs) : rs[i].id = id
  THEN <<rs[CHOOSE i \in 1..Len(rs) :
               rs[i].id = id /\ \A j \in 1..(i - 1) : rs[j].id # id]>>
  ELSE <<>>

\* the selected recipe as <<recipe>>, or <<>> for null and undefined
getSelectedRecipe ==
  IF TruthyId(selectedRecipeId) THEN Find(recipes, selectedRecipeId) ELSE <<>>

\* String.prototype.toLowerCase
UpperCase == <<"A", "B", "C", "D", "E", "F", "G", "H", "I", "J", "K", "L", "M",
               "N", "O", "P", "Q", "R", "S", "T", "U", "V", "W", "X", "Y", "Z">>
LowerCase == <<"a", "b", "c", "d", "e", "f", "g", "h", "i", "j", "k", "l", "m",
               "n", "o", "p", "q", "r", "s", "t", "u", "v", "w", "x", "y", "z">>
toLowerCaseChar(c) ==
  IF \E i \in 1..Len(UpperCase) : UpperCase[i] = c
  THEN LowerCase[CHOOSE i \in 1..Len(UpperCase) : UpperCase[i] = c]
  ELSE c
toLowerCase(str) == [i \in 1..Len(str) |-> toLowerCaseChar(str[i])]

\* String.prototype.includes and Array.prototype.includes
includes(str, term) ==
  \E i \in 0..(Len(str) - Len(term)) : SubSeq(str, i + 1, i + Len(term)) = term
arrayIncludes(array, x) == \E i \in 1..Len(array) : array[i] = x

getFilteredRecipesOf_fromAll(rs, term, category) ==
  IF TruthyCategory(category)
  THEN LET inCategory(recipe) == arrayIncludes(recipe.category, category)
       IN SelectSeq(rs, inCategory)
  ELSE IF TruthyString(term)
  THEN LET matches(recipe) ==
             \/ includes(toLowerCase(recipe.title), toLowerCase(term))
             \/ includes(toLowerCase(recipe.description), toLowerCase(term))
       IN SelectSeq(rs, matches)
  ELSE rs
getFilteredRecipesOf_newestFirst(rs, term, category) ==
  LET matches(recipe) ==
        \/ includes(toLowerCase(recipe.title), toLowerCase(term))
        \/ includes(toLowerCase(recipe.description), toLowerCase(term))
      inCategory(recipe) == arrayIncludes(recipe.category, category)
      searched == IF TruthyString(term) THEN SelectSeq(rs, matches) ELSE rs
      filtered == IF TruthyCategory(category)
                  THEN SelectSeq(searched, inCategory) ELSE searched
  IN [i \in 1..Len(filtered) |-> filtered[Len(filtered) + 1 - i]]
\* getFilteredRecipes on a state with these recipes, searchTerm and
\* filterCategory
getFilteredRecipesOf(rs, term, category) ==
  LET matches(recipe) ==
        \/ includes(toLowerCase(recipe.title), toLowerCase(term))
        \/ includes(toLowerCase(recipe.description), toLowerCase(term))
      inCategory(recipe) == arrayIncludes(recipe.category, category)
      searched == IF TruthyString(term) THEN SelectSeq(rs, matches) ELSE rs
  IN IF TruthyCategory(category) THEN SelectSeq(searched, inCategory)
     ELSE searched

getFilteredRecipes == getFilteredRecipesOf(recipes, searchTerm, filterCategory)

\* --- the specification of the filter: a collection drawn from a few
\* recipes, the search term and the category set by their setters, and the
\* list read through getFilteredRecipes
ApplePie ==
  [id |-> 1, title |-> <<"A", "p", "p", "l", "e", " ", "P", "i", "e">>,
   description |-> <<"S", "w", "e", "e", "t">>, category |-> <<"Dessert">>]
BeefStew ==
  [id |-> 2, title |-> <<"B", "e", "e", "f", " ", "S", "t", "e", "w">>,
   description |-> <<"S", "l", "o", "w">>, category |-> <<"Dinner">>]
PotPie ==
  [id |-> 3, title |-> <<"C", "h", "i", "c", "k", "e", "n">>,
   description |-> <<"A", " ", "p", "o", "t", " ", "P", "I", "E">>,
   category |-> <<"Dinner", "Baking">>]
FilterRecipes == {ApplePie, BeefStew, PotPie}

\* the collections without repetition over FilterRecipes
FilterCollections ==
  {rs \in UNION {[1..n -> FilterRecipes] : n \in 0..Cardinality(FilterRecipes)} :
      \A i, j \in 1..Len(rs) : i # j => rs[i] # rs[j]}

FilterTerms == {<<>>, <<"p", "i", "e">>, <<"P", "i", "E">>, <<"s", "t", "e", "w">>}
FilterCategories == {nullCategory, "", "Dinner", "Dessert"}

InitFilter ==
  /\ recipes \in FilterCollections
  /\ selectedRecipeId = null
  /\ isEditing = FALSE
  /\ isCreating = FALSE
  /\ searchTerm = <<>>
  /\ filterCategory = nullCategory
  /\ isLoading = FALSE
  /\ now = 0
  /\ nextId = Cardinality(FilterRecipes) + 1
  /\ calls = 0
  /\ last = Call("init", null, null, NoData)
  /\ form = InitialForm

\* a component reads the filtered list
readFilteredRecipes ==
  /\ last' = [op |-> "getFilteredRecipes", result |-> getFilteredRecipes]
  /\ UNCHANGED <<form, recipes, selectedRecipeId, ui, now, nextId, calls>>

NextFilter ==
  \/ \E term \in FilterTerms : setSearchTerm(term)
  \/ \E category \in FilterCategories : setFilterCategory(category)
  \/ readFilteredRecipes

SpecFilter == InitFilter /\ [][NextFilter]_vars

\* --- the specification of the selection: recipes are created, given an id
\* by updateRecipe, selected, and the selection read through
\* getSelectedRecipe
SelectIds == {null, EmptyId} \cup CallerIds

readSelectedRecipe ==
  /\ last' = [op |-> "getSelectedRecipe", result |-> getSelectedRecipe]
  /\ UNCHANGED <<form, recipes, selectedRecipeId, ui, now, nextId, calls>>

NextSelect ==
  \/ \E recipeData \in RecipeData : createRecipe(recipeData)
  \/ \E id \in CallerIds, newId \in {EmptyId} \cup CallerIds :
        updateRecipe(id, [id |-> newId])
  \/ \E id \in SelectIds : selectRecipe(id)
  \/ readSelectedRecipe

SpecSelect == Init /\ [][NextSelect]_vars

\* --- the specification of the calls with every argument of their type:
\* updateRecipe is also called with a Partial<Recipe> that gives undefined
\* for a list
NextTotal ==
  \/ Next
  \/ \E id \in CallerIds, recipeData \in PartialUndefined :
        updateRecipe(id, recipeData)

SpecTotal == Init /\ [][NextTotal]_vars

\* --- the specification of the store with its sync collaborator: between
\* two local calls the collaborator delivers the state of another client
\* as a snapshot that replaces the state.  Another client has added a
\* recipe of its own, or given the first recipe another title.
RemoteRecipe ==
  [id |-> ForeignId, title |-> "Remote", ingredients |-> <<>>,
   instructions |-> <<>>, isFavorite |-> FALSE,
   dateCreated |-> 0, dateModified |-> 0]

RemoteSnapshots ==
  {Append(recipes, RemoteRecipe) : x \in {ForeignId} \ Ids(recipes)}
    \cup {[i \in 1..Len(recipes) |->
             IF i = 1 THEN Spread(recipes[i], [title |-> "Remote"])
             ELSE recipes[i]] : x \in {1} \cap (1..Len(recipes))}

\* the delivered snapshot replaces the state; the call records the state
\* it replaced
remoteUpdate(snapshot) ==
  /\ calls < MaxCalls
  /\ recipes' = snapshot
  /\ calls' = calls + 1
  /\ last' = Spread(Call("remoteUpdate", null, null, snapshot),
                    [before |-> recipes])
  /\ UNCHANGED <<form, selectedRecipeId, ui, now, nextId>>

NextSync ==
  \/ Next
  \/ \E snapshot \in RemoteSnapshots : remoteUpdate(snapshot)

SpecSync == Init /\ [][NextSync]_vars

\* --- the specification of createRecipe called without a form in front:
\* with recipes a form lets through and recipes it would not
NextUnvalidated ==
  \/ Tick
  \/ \E recipeData \in RecipeData \cup MalformedRecipeData :
        createRecipe(recipeData)
  \/ \E id \in CallerIds : deleteRecipe(id)
  \/ startCreating

SpecUnvalidated == Init /\ [][NextUnvalidated]_vars

\* ------------------------------------------------------- creation form
\* String.prototype.trim
trim(str) ==
  LET solid == {i \in 1..Len(str) : str[i] # " "}
  IN IF solid = {} THEN <<>>
     ELSE SubSeq(str, CHOOSE i \in solid : \A j \in solid : i <= j,
                      CHOOSE i \in solid : \A j \in solid : i >= j)

\* strings typed into the form
Pie == <<"P", "i", "e">>
Flour == <<"F", "l", "o", "u", "r">>
Mix == <<"M", "i", "x">>
Bake == <<"B", "a", "k", "e">>
FormTitles == {<<" ">>, <<" ">> \o Pie \o <<" ">>}
FormNames == {<<" ">>, Flour}
FormTexts == {<<>>, Mix \o <<" ">>}

\* JSON texts pasted into the import area.  A text is the sequence of its
\* pieces, a piece being a blank or a run of other characters.
JsonTexts ==
  {<<>>,
   <<" ", " ">>,
   <<"{title:">>,
   <<"null">>,
   <<"{\"ingredients\":[],\"instructions\":[]}">>,
   <<"{\"title\":\"\",\"ingredients\":[],\"instructions\":[]}">>,
   <<"{\"title\":\"Pie\",\"ingredients\":\"Flour\",\"instructions\":[]}">>,
   <<"{\"title\":\"Pie\",\"ingredients\":[{\"name\":\"Flour\"}]}">>,
   <<"{\"title\":\"Pie\",\"ingredients\":[null],\"instructions\":[]}">>,
   <<"{\"title\":\" \",\"ingredients\":[{}],\"instructions\":[]}">>,
   <<"{\"title\":\"Pie\",\"ingredients\":[{\"name\":\"Flour\"}],",
     "\"instructions\":[{}]}">>,
   <<" ", "{\"title\":\" Pie \",\"ingredients\":[{\"name\":\"Flour\"}],",
     "\"instructions\":[{\"text\":\"Mix\"},{\"text\":\" Bake\"}]}">>}

\* JSON.parse of the texts above: a SyntaxError, null, or an object with the
\* fields the text gives; a list field is an array of items or not an array,
\* an item is null or an object
Array(items) == [isArray |-> TRUE, items |-> items]
NotArray == [isArray |-> FALSE, items |-> <<>>]
NullItem == [null |-> TRUE]
EmptyObject == <<>>
Object(fields) == [type |-> "object", object |-> fields]
JSONparse(text) ==
  LET t == trim(text) IN
  CASE t = <<"null">> -> [type |-> "null"]
    [] t = <<"{\"ingredients\":[],\"instructions\":[]}">> ->
         Object([ingredients |-> Array(<<>>), instructions |-> Array(<<>>)])
    [] t = <<"{\"title\":\"\",\"ingredients\":[],\"instructions\":[]}">> ->
         Object([title |-> <<>>, ingredients |-> Array(<<>>),
                 instructions |-> Array(<<>>)])
    [] t = <<"{\"title\":\"Pie\",\"ingredients\":\"Flour\",\"instructions\":[]}">> ->
         Object([title |-> Pie, ingredients |-> NotArray,
                 instructions |-> Array(<<>>)])
    [] t = <<"{\"title\":\"Pie\",\"ingredients\":[{\"name\":\"Flour\"}]}">> ->
         Object([title |-> Pie, ingredients |-> Array(<<[name |-> Flour]>>)])
    [] t = <<"{\"title\":\"Pie\",\"ingredients\":[null],\"instructions\":[]}">> ->
         Object([title |-> Pie, ingredients |-> Array(<<NullItem>>),
                 instructions |-> Array(<<>>)])
    [] t = <<"{\"title\":\" \",\"ingredients\":[{}],\"instructions\":[]}">> ->
         Object([title |-> <<" ">>, ingredients |-> Array(<<EmptyObject>>),
                 instructions |-> Array(<<>>)])
    [] t = <<"{\"title\":\"Pie\",\"ingredients\":[{\"name\":\"Flour\"}],",
             "\"instructions\":[{}]}">> ->
         Object([title |-> Pie, ingredients |-> Array(<<[name |-> Flour]>>),
                 instructions |-> Array(<<EmptyObject>>)])
    [] t = <<"{\"title\":\" Pie \",\"ingredients\":[{\"name\":\"Flour\"}],",
             "\"instructions\":[{\"text\":\"Mix\"},{\"text\":\" Bake\"}]}">> ->
         Object([title |-> <<" ">> \o Pie \o <<" ">>,
                 ingredients |-> Array(<<[name |-> Flour]>>),
                 instructions |->
                   Array(<<[text |-> Mix], [text |-> <<" ">> \o Bake]>>)])
    [] OTHER -> [type |-> "SyntaxError"]

\* parsedData.field, and item.field || ""
Has(object, field) == field \in DOMAIN object
OrEmpty(item, field) == IF Has(item, field) THEN item[field] ELSE <<>>
\* the items mapped before the map throws on a null item: all of them when
\* none is null
Mapped(items) ==
  IF \E i \in 1..Len(items) : Has(items[i], "null")
  THEN SubSeq(items, 1, (CHOOSE i \in 1..Len(items) :
                            /\ Has(items[i], "null")
                            /\ \A j \in 1..(i - 1) : ~Has(items[j], "null")) - 1)
  ELSE items

\* the messages of handleJsonParse
PasteMessage == "Please paste JSON data into the text area."
Failed(message) ==
  "Failed to parse JSON: " \o message
    \o ". Please check the format and required fields."

\* what stops handleJsonParse before it fills the form: the message of the
\* error thrown, none when the parsed data passes
jsonProblem_truthyOnly(parsed) ==
  IF parsed.type = "SyntaxError" THEN "Unexpected token"
  ELSE IF parsed.type = "null" THEN "Cannot read properties of null"
  ELSE IF ~Has(parsed.object, "title") \/ parsed.object.title = <<>>
  THEN "Missing required field: title"
  ELSE IF ~Has(parsed.object, "ingredients")
  THEN "Missing or invalid field: ingredients"
  ELSE IF ~Has(parsed.object, "instructions")
  THEN "Missing or invalid field: instructions"
  ELSE nullError
jsonProblem(parsed) ==
  IF parsed.type = "SyntaxError" THEN "Unexpected token"
  ELSE IF parsed.type = "null" THEN "Cannot read properties of null"
  ELSE IF ~Has(parsed.object, "title") \/ parsed.object.title = <<>>
  THEN "Missing required field: title"
  ELSE IF \/ ~Has(parsed.object, "ingredients")
          \/ ~parsed.object.ingredients.isArray
  THEN "Missing or invalid field: ingredients"
  ELSE IF \/ ~Has(parsed.object, "instructions")
          \/ ~parsed.object.instructions.isArray
  THEN "Missing or invalid field: instructions"
  ELSE nullError

\* handleJsonParse: the form it leaves, and the number of ids it generated.
\* The fields set before an error is thrown stay set.
importJson(f) ==
  LET cleared == [f EXCEPT !.jsonError = nullError]
      failed(g, message, uuids) ==
        [form |-> [g EXCEPT !.jsonError = Failed(message)], uuids |-> uuids]
      parsed == JSONparse(f.jsonInput)
      o == parsed.object
      titled == [cleared EXCEPT !.title = o.title]
      ingredientItems == Mapped(o.ingredients.items)
      formIngredients ==
        [i \in 1..Len(ingredientItems) |->
           [id |-> nextId + i - 1, name |-> OrEmpty(ingredientItems[i], "name")]]
      withIngredients == [titled EXCEPT !.ingredients = formIngredients]
      instructionItems == Mapped(o.instructions.items)
      formInstructions ==
        [i \in 1..Len(instructionItems) |->
           [id |-> nextId + Len(ingredientItems) + i - 1,
            text |-> OrEmpty(instructionItems[i], "text")]]
  IN IF trim(f.jsonInput) = <<>>
     THEN [form |-> [cleared EXCEPT !.jsonError = PasteMessage], uuids |-> 0]
     ELSE IF jsonProblem(parsed) # nullError
     THEN failed(cleared, jsonProblem(parsed), 0)
     ELSE IF ingredientItems # o.ingredients.items
     THEN failed(titled, "Cannot read properties of null",
                 Len(ingredientItems))
     ELSE IF instructionItems # o.instructions.items
     THEN failed(withIngredients, "Cannot read properties of null",
                 Len(ingredientItems) + Len(instructionItems))
     ELSE [form |-> [withIngredients EXCEPT !.instructions = formInstructions,
                                            !.jsonInput = <<>>,
                                            !.creationMode = "manual"],
           uuids |-> Len(ingredientItems) + Len(instructionItems)]

\* a handler of the form: it leaves the store as it is
formCall(op, id, data, f, uuids) ==
  /\ calls < MaxCalls
  /\ form' = f
  /\ nextId' = nextId + uuids
  /\ calls' = calls + 1
  /\ last' = Call(op, id, null, data)
  /\ UNCHANGED <<recipes, selectedRecipeId, ui, now>>

setTitle(value) ==
  formCall("setTitle", null, value, [form EXCEPT !.title = value], 0)

setJsonInput(text) ==
  formCall("setJsonInput", null, text, [form EXCEPT !.jsonInput = text], 0)

setCreationMode(mode) ==
  formCall("setCreationMode", null, mode,
           [form EXCEPT !.creationMode = mode], 0)

handleAddIngredient ==
  formCall("handleAddIngredient", null, NoData,
           [form EXCEPT !.ingredients =
              Append(form.ingredients, [id |-> randomUUID, name |-> <<>>])], 1)

handleIngredientChange(id, value) ==
  formCall("handleIngredientChange", id, value,
           [form EXCEPT !.ingredients =
              [i \in 1..Len(form.ingredients) |->
                 IF form.ingredients[i].id = id
                 THEN Spread(form.ingredients[i], [name |-> value])
                 ELSE form.ingredients[i]]], 0)

handleRemoveIngredient(id) ==
  LET keep(ing) == ing.id # id IN
  formCall("handleRemoveIngredient", id, NoData,
           [form EXCEPT !.ingredients = SelectSeq(form.ingredients, keep)], 0)

handleAddInstruction ==
  formCall("handleAddInstruction", null, NoData,
           [form EXCEPT !.instructions =
              Append(form.instructions, [id |-> randomUUID, text |-> <<>>])], 1)

handleInstructionChange(id, value) ==
  formCall("handleInstructionChange", id, value,
           [form EXCEPT !.instructions =
              [i \in 1..Len(form.instructions) |->
                 IF form.instructions[i].id = id
                 THEN Spread(form.instructions[i], [text |-> value])
                 ELSE form.instructions[i]]], 0)

handleRemoveInstruction(id) ==
  LET keep(inst) == inst.id # id IN
  formCall("handleRemoveInstruction", id, NoData,
           [form EXCEPT !.instructions = SelectSeq(form.instructions, keep)], 0)

handleJsonParse ==
  formCall("handleJsonParse", null, form.jsonInput,
           importJson(form).form, importJson(form).uuids)

\* handleSubmit: the alert that stops it, none when the form passes
submitAlert_noStepCheck(f) ==
  IF trim(f.title) = <<>> THEN "Please enter a recipe title."
  ELSE IF \/ Len(f.ingredients) = 0
          \/ \E i \in 1..Len(f.ingredients) : trim(f.ingredients[i].name) = <<>>
  THEN "Please add at least one ingredient with a name."
  ELSE nullError
submitAlert(f) ==
  IF trim(f.title) = <<>> THEN "Please enter a recipe title."
  ELSE IF \/ Len(f.ingredients) = 0
          \/ \E i \in 1..Len(f.ingredients) : trim(f.ingredients[i].name) = <<>>
  THEN "Please add at least one ingredient with a name."
  ELSE IF \/ Len(f.instructions) = 0
          \/ \E i \in 1..Len(f.instructions) :
                trim(f.instructions[i].text) = <<>>
  THEN "Please add at least one instruction step."
  ELSE nullError

\* the recipe handleSubmit builds from the form, with new ids in place of
\* the form's
submittedRecipe(f) ==
  [title |-> trim(f.title),
   isFavorite |-> FALSE,
   ingredients |->
     [i \in 1..Len(f.ingredients) |->
        [id |-> nextId + i - 1, name |-> f.ingredients[i].name]],
   instructions |->
     [i \in 1..Len(f.instructions) |->
        [id |-> nextId + Len(f.ingredients) + i - 1,
         stepNumber |-> i,
         text |-> trim(f.instructions[i].text)]]]

\* createRecipe(recipeData) as handleSubmit calls it, after the ids of the
\* ingredients and instructions were generated
handleSubmit ==
  /\ calls < MaxCalls
  /\ calls' = calls + 1
  /\ IF submitAlert(form) = nullError
     THEN LET recipeData == submittedRecipe(form)
              uuids == Len(form.ingredients) + Len(form.instructions)
              recipe == Spread([id |-> nextId + uuids, dateCreated |-> now,
                                dateModified |-> now], recipeData)
          IN /\ recipes' = Append(recipes, recipe)
             /\ selectedRecipeId' = recipe.id
             /\ isCreating' = FALSE
             /\ nextId' = nextId + uuids + 1
             /\ last' = Call("createRecipe", null, null, recipeData)
             /\ UNCHANGED <<form, isEditing, searchTerm, filterCategory,
                            isLoading, now>>
     ELSE /\ last' = Call("handleSubmit", null, null, submitAlert(form))
          /\ UNCHANGED <<form, recipes, selectedRecipeId, ui, now, nextId>>

\* --- the specification of the creation form in front of the store
NextForm ==
  \/ \E value \in FormTitles : setTitle(value)
  \/ \E text \in JsonTexts : setJsonInput(text)
  \/ \E mode \in {"manual", "llm"} : setCreationMode(mode)
  \/ handleAddIngredient
  \/ \E id \in Ids(form.ingredients), value \in FormNames :
        handleIngredientChange(id, value)
  \/ \E id \in Ids(form.ingredients) : handleRemoveIngredient(id)
  \/ handleAddInstruction
  \/ \E id \in Ids(form.instructions), value \in FormTexts :
        handleInstructionChange(id, value)
  \/ \E id \in Ids(form.instructions) : handleRemoveInstruction(id)
  \/ handleJsonParse
  \/ handleSubmit

SpecForm == Init /\ [][NextForm]_vars

\* --------------------------------------------------------- detail view
\* instructions a caller adds out of step order
DetailInstructionData ==
  InstructionData \cup {[stepNumber |-> 1, text |-> "Mix"]}

\* Array.prototype.sort with (a, b) => a.stepNumber - b.stepNumber: ascending
\* by stepNumber, elements of equal stepNumber in their earlier order
InsertByStepNumber(sorted, inst) ==
  LET k == Cardinality({i \in 1..Len(sorted) :
                          sorted[i].stepNumber <= inst.stepNumber})
  IN SubSeq(sorted, 1, k) \o <<inst>> \o SubSeq(sorted, k + 1, Len(sorted))

RECURSIVE sortByStepNumber(_)
sortByStepNumber(instructions) ==
  IF instructions = <<>> THEN <<>>
  ELSE InsertByStepNumber(
         sortByStepNumber(SubSeq(instructions, 1, Len(instructions) - 1)),
         instructions[Len(instructions)])

\* A render of RecipeDetail for the route parameter recipeId. The selector
\* returns the first recipe of the store with that id, the object the store
\* holds; sort() orders its instructions array in place and returns that
\* array, so the store's recipe has its instructions in the sorted order
\* afterwards. Nothing goes through set(): dateModified is as it was.
\* Without such a recipe the "not found" page is rendered.
RecipeDetail(recipeId) ==
  /\ IF recipeId \in Ids(recipes)
     THEN LET i == CHOOSE i \in 1..Len(recipes) :
                     /\ recipes[i].id = recipeId
                     /\ \A j \in 1..(i - 1) : recipes[j].id # recipeId
          IN recipes' =
               [recipes EXCEPT ![i].instructions = sortByStepNumber(@)]
     ELSE recipes' = recipes
  /\ last' = Call("RecipeDetail", recipeId, null, NoData)
  /\ UNCHANGED <<form, selectedRecipeId, ui, now, nextId, calls>>

NextDetail ==
  \/ Tick
  \/ \E recipeData \in RecipeData : createRecipe(recipeData)
  \/ \E id \in CallerIds, instructionData \in DetailInstructionData :
        addInstruction(id, instructionData)
  \/ \E recipeId \in CallerIds : RecipeDetail(recipeId)

SpecDetail == Init /\ [][NextDetail]_vars

\* ------------------------------------------------------------ properties
\* the step is a call of the store action op
Called(op) == calls' = calls + 1 /\ last'.op = op

RemoveAt(s, i) == SubSeq(s, 1, i - 1) \o SubSeq(s, i + 1, Len(s))

\* an object without its dateModified
StripDateModified(r) == [k \in (DOMAIN r) \ {"dateModified"} |-> r[k]]

RecipeIdOps == {"updateRecipe", "deleteRecipe", "toggleFavorite",
                "addIngredient", "updateIngredient", "removeIngredient",
                "addInstruction", "updateInstruction", "removeInstruction"}

TouchOps == RecipeIdOps \ {"deleteRecipe"}

\* C1: createRecipe yields a collection with exactly one more element, whose
\* id differs from the id of every recipe already there and whose
\* dateCreated equals its dateModified.
C1_Step ==
  Called("createRecipe") =>
    /\ Len(recipes') = Len(recipes) + 1
    /\ \E i \in 1..Len(recipes') :
          /\ RemoveAt(recipes', i) = recipes
          /\ recipes'[i].id \notin Ids(recipes)
          /\ recipes'[i].dateCreated = recipes'[i].dateModified
C1_CreateAddsOneFreshRecipe == [][C1_Step]_vars

\* a recipe was created in a collection that already held one
C1_Witness == last.op = "createRecipe" /\ Len(recipes) >= 2

\* C2: selectedRecipeId is null or the id of a recipe in the collection, in
\* every reachable state.
C2_SelectionNeverDangling ==
  selectedRecipeId = null \/ selectedRecipeId \in Ids(recipes)

\* C3: an update, delete, toggle, ingredient or instruction call whose recipe
\* id is not in the collection leaves the collection and the selection as
\* they were.
C3_Step ==
  (\E op \in RecipeIdOps : Called(op)) /\ last'.id \notin Ids(recipes) =>
    recipes' = recipes /\ selectedRecipeId' = selectedRecipeId
C3_UnknownRecipeIdIsNoOp == [][C3_Step]_vars

\* such a call was made on a non-empty collection with a selection
C3_Witness ==
  /\ last.op \in RecipeIdOps
  /\ ~last.found
  /\ Len(recipes) > 0
  /\ selectedRecipeId # null

\* C4: updateIngredient and removeIngredient (updateInstruction and
\* removeInstruction) on an existing recipe with an ingredient (instruction)
\* id that recipe does not have leave the recipe, its dateModified included,
\* exactly as it was.
C4_Step ==
  /\ (Called("updateIngredient") \/ Called("removeIngredient")) /\
       (\A i \in 1..Len(recipes) :
           recipes[i].id = last'.id =>
              last'.sub \notin Ids(recipes[i].ingredients))
       => recipes' = recipes
  /\ (Called("updateInstruction") \/ Called("removeInstruction")) /\
       (\A i \in 1..Len(recipes) :
           recipes[i].id = last'.id =>
              last'.sub \notin Ids(recipes[i].instructions))
       => recipes' = recipes
C4_UnknownSubIdIsNoOp == [][C4_Step]_vars

\* C5: deleteRecipe(id) with id the selection sets the selection to null,
\* with any other id it leaves the selection as it was.
C5_Step ==
  Called("deleteRecipe") =>
    /\ last'.id = selectedRecipeId => selectedRecipeId' = null
    /\ last'.id # selectedRecipeId => selectedRecipeId' = selectedRecipeId
C5_DeleteClearsOnlyItsSelection == [][C5_Step]_vars

\* the selected recipe was deleted
C5_Witness ==
  last.op = "deleteRecipe" /\ last.found /\ last.selected
    /\ selectedRecipeId = null

\* C6: every recipe has dateModified >= dateCreated, in every reachable
\* state.
C6_ModifiedNotBeforeCreated ==
  \A i \in 1..Len(recipes) : recipes[i].dateModified >= recipes[i].dateCreated

\* C7: a call of an updating action sets the dateModified of the recipes
\* with its id to the time of the call, whatever dateModified the supplied
\* data carries, and changes the dateModified of no other recipe.
C7_Step ==
  (\E op \in TouchOps : Called(op)) =>
    /\ Len(recipes') = Len(recipes)
    /\ \A i \in 1..Len(recipes) :
          recipes'[i].dateModified =
             IF recipes[i].id = last'.id THEN now
             ELSE recipes[i].dateModified
C8_RecipeIdsUnique ==
  \A i, j \in 1..Len(recipes) : i # j => recipes[i].id # recipes[j].id

\* C9: within every recipe the ingredient ids are pairwise distinct and the
\* instruction ids are pairwise distinct, in every reachable state.
C9_SubEntityIdsUnique ==
  \A r \in 1..Len(recipes) :
     /\ \A i, j \in 1..Len(recipes[r].ingredients) :
           i # j => recipes[r].ingredients[i].id # recipes[r].ingredients[j].id
     /\ \A i, j \in 1..Len(recipes[r].instructions) :
           i # j =>
             recipes[r].instructions[i].id # recipes[r].instructions[j].id

\* C10: after toggleFavorite(id) on a recipe of the collection, a second
\* toggleFavorite(id) gives back the isFavorite the recipe had before the
\* first, and the collection it had before the first, dateModified aside.
C10_Step ==
  Called("toggleFavorite") /\ last'.id \in Ids(recipes) =>
    LET twice == toggleFavoriteOp(recipes', last'.id) IN
      /\ Len(twice) = Len(recipes)
      /\ \A i \in 1..Len(recipes) :
            IF recipes[i].id = last'.id
            THEN /\ twice[i].isFavorite = recipes[i].isFavorite
                 /\ recipes'[i].isFavorite # recipes[i].isFavorite
                 /\ StripDateModified(twice[i]) = StripDateModified(recipes[i])
            ELSE twice[i] = recipes[i]
C10_ToggleFavoriteTwice == [][C10_Step]_vars

\* a recipe of a two-recipe collection was toggled to favorite
C10_Witness ==
  /\ last.op = "toggleFavorite"
  /\ last.found
  /\ Len(recipes) = 2
  /\ \E i \in 1..Len(recipes) : recipes[i].id = last.id /\ recipes[i].isFavorite

\* the recipes the description of getFilteredRecipes keeps: no term or the
\* lower-cased term inside the lower-cased title or description, and no
\* category (null) or the category among the recipe's
StatedKeep(recipe, term, category) ==
  /\ \/ term = <<>>
     \/ includes(toLowerCase(recipe.title), toLowerCase(term))
     \/ includes(toLowerCase(recipe.description), toLowerCase(term))
  /\ \/ category = nullCategory
     \/ arrayIncludes(recipe.category, category)

\* C11: getFilteredRecipes returns exactly the recipes whose title or
\* description contains the search term, case-insensitively, when the term
\* is not empty, and whose category list has filterCategory when it is not
\* null; a non-null filterCategory, the empty string included, restricts.
C11_FilteredAsStated ==
  LET keep(recipe) == StatedKeep(recipe, searchTerm, filterCategory)
  IN getFilteredRecipes = SelectSeq(recipes, keep)

\* s is t with elements left out, the order kept
IsSubsequence(s, t) ==
  \E f \in [1..Len(s) -> 1..Len(t)] :
     /\ \A i \in 1..Len(s) : s[i] = t[f[i]]
     /\ \A i, j \in 1..Len(s) : i < j => f[i] < f[j]

\* C12: getFilteredRecipes is a subsequence of the collection in the
\* collection's order, and the whole collection in its order when the search
\* term is empty and filterCategory is null.
C12_FilterKeepsOrder ==
  /\ IsSubsequence(getFilteredRecipes, recipes)
  /\ searchTerm = <<>> /\ filterCategory = nullCategory =>
       getFilteredRecipes = recipes
  /\ last.op = "getFilteredRecipes" => IsSubsequence(last.result, recipes)

\* the first and the third of three recipes were read, the second dropped
C12_Witness ==
  /\ last.op = "getFilteredRecipes"
  /\ Len(recipes) = 3
  /\ last.result = <<recipes[1], recipes[3]>>
  /\ recipes[1].id > recipes[3].id

\* C13: with a non-empty search term and a non-null filterCategory the
\* result is the recipes, in order, that are in the result of the term alone
\* and in the result of the category alone; Apple Pie [Dessert] and Beef
\* Stew [Dinner] under "pie" and "Dinner" give the empty list.
C13_FiltersConjunctive ==
  /\ searchTerm # <<>> /\ filterCategory # nullCategory =>
       LET onlyTerm == getFilteredRecipesOf(recipes, searchTerm, nullCategory)
           onlyCategory == getFilteredRecipesOf(recipes, <<>>, filterCategory)
           inBoth(recipe) == /\ arrayIncludes(onlyTerm, recipe)
                             /\ arrayIncludes(onlyCategory, recipe)
       IN getFilteredRecipes = SelectSeq(recipes, inBoth)
  /\ /\ recipes = <<ApplePie, BeefStew>>
     /\ searchTerm = <<"p", "i", "e">>
     /\ filterCategory = "Dinner"
     => getFilteredRecipes = <<>>

\* Apple Pie and Beef Stew were read under "pie" and "Dinner": nothing
C13_Witness ==
  /\ last.op = "getFilteredRecipes"
  /\ last.result = <<>>
  /\ recipes = <<ApplePie, BeefStew>>
  /\ searchTerm = <<"p", "i", "e">>
  /\ filterCategory = "Dinner"
  /\ getFilteredRecipesOf(recipes, searchTerm, nullCategory) = <<ApplePie>>
  /\ getFilteredRecipesOf(recipes, <<>>, filterCategory) = <<BeefStew>>

\* C14: getSelectedRecipe returns the recipe whose id is selectedRecipeId
\* when the collection has one, and no recipe when selectedRecipeId is null
\* or no recipe has that id.
C14_SelectedRecipeFound ==
  IF selectedRecipeId # null /\ selectedRecipeId \in Ids(recipes)
  THEN /\ Len(getSelectedRecipe) = 1
       /\ getSelectedRecipe[1].id = selectedRecipeId
       /\ arrayIncludes(recipes, getSelectedRecipe[1])
  ELSE getSelectedRecipe = <<>>

\* C15: createRecipe appends the new recipe as the last of the collection,
\* leaves the recipes that were there unchanged and in their order, sets
\* selectedRecipeId to the new recipe's id and isCreating to false.
C15_Step ==
  Called("createRecipe") =>
    /\ Len(recipes') = Len(recipes) + 1
    /\ SubSeq(recipes', 1, Len(recipes)) = recipes
    /\ \A k \in DOMAIN last'.data :
          recipes'[Len(recipes')][k] = last'.data[k]
    /\ selectedRecipeId' = recipes'[Len(recipes')].id
    /\ isCreating' = FALSE
C15_CreateAppendsAndSelects == [][C15_Step]_vars

\* a second recipe was created while another one was selected: it is the
\* last of two and the selection
C15_Witness ==
  /\ last.op = "createRecipe"
  /\ ~last.selected
  /\ Len(recipes) = 2
  /\ recipes[2].title = last.data.title
  /\ selectedRecipeId = recipes[2].id
  /\ selectedRecipeId # recipes[1].id
  /\ ~isCreating

\* C16: updateRecipe(id, partial) with the id of a recipe gives, at the same
\* position, a recipe with the value of partial in every field partial
\* names and the old value in every other field, dateModified aside; the
\* other recipes, the length and the order of the collection are unchanged.
C16_Step ==
  Called("updateRecipe") /\ last'.id \in Ids(recipes) =>
    /\ Len(recipes') = Len(recipes)
    /\ \A i \in 1..Len(recipes) :
          IF recipes[i].id = last'.id
          THEN /\ DOMAIN recipes'[i]
                    = (DOMAIN recipes[i]) \cup (DOMAIN last'.data)
               /\ \A k \in (DOMAIN recipes'[i]) \ {"dateModified"} :
                     recipes'[i][k] = IF k \in DOMAIN last'.data
                                      THEN last'.data[k] ELSE recipes[i][k]
          ELSE recipes'[i] = recipes[i]
C16_UpdateMergesPartial == [][C16_Step]_vars

\* the second of two recipes was given a new title, the first kept its own
C16_Witness ==
  /\ last.op = "updateRecipe"
  /\ last.found
  /\ "title" \in DOMAIN last.data
  /\ Len(recipes) = 2
  /\ recipes[2].title = last.data.title
  /\ recipes[1].title # last.data.title

\* C17: addIngredient(recipeId, data) on a recipe of the collection gives
\* its ingredient list one more element, the last, whose id is none of the
\* ids the list had and whose other fields are those of data; the recipe's
\* dateModified does not go back, and the other recipes are unchanged.
C17_Step ==
  Called("addIngredient") /\ last'.id \in Ids(recipes) =>
    /\ Len(recipes') = Len(recipes)
    /\ \A i \in 1..Len(recipes) :
          IF recipes[i].id = last'.id
          THEN LET old == recipes[i].ingredients
                   new == recipes'[i].ingredients
               IN /\ Len(new) = Len(old) + 1
                  /\ SubSeq(new, 1, Len(old)) = old
                  /\ new[Len(new)].id \notin Ids(old)
                  /\ DOMAIN new[Len(new)] = {"id"} \cup DOMAIN last'.data
                  /\ \A k \in DOMAIN last'.data :
                        new[Len(new)][k] = last'.data[k]
                  /\ recipes'[i].dateModified >= recipes[i].dateModified
          ELSE recipes'[i] = recipes[i]
C18_Step ==
  Called("addInstruction") /\ last'.id \in Ids(recipes) =>
    \A i \in 1..Len(recipes) :
       recipes[i].id = last'.id =>
         LET old == recipes[i].instructions
             new == recipes'[i].instructions
         IN /\ Len(new) = Len(old) + 1
            /\ new[Len(new)].stepNumber = last'.data.stepNumber
            /\ \A j \in 1..Len(old) : new[j].stepNumber = old[j].stepNumber
C18_AddInstructionKeepsStepNumbers == [][C18_Step]_vars

\* an instruction was added after step 1 with a step number that leaves a
\* gap
C18_Witness ==
  /\ last.op = "addInstruction"
  /\ last.found
  /\ \E i \in 1..Len(recipes) :
        /\ recipes[i].id = last.id
        /\ Len(recipes[i].instructions) = 2
        /\ recipes[i].instructions[2].stepNumber
             > recipes[i].instructions[1].stepNumber + 1

\* C19: selectRecipe(id) sets selectedRecipeId to id and isEditing to false;
\* startCreating sets isCreating to true and selectedRecipeId to null;
\* startEditing and finishEditing set isEditing to true and to false;
\* cancelCreating sets isCreating to false; setSearchTerm and
\* setFilterCategory set their field; each leaves the recipes and every
\* other field of the state unchanged.
C19_Step ==
  /\ Called("selectRecipe") =>
       /\ selectedRecipeId' = last'.id
       /\ isEditing' = FALSE
       /\ UNCHANGED <<recipes, isCreating, searchTerm, filterCategory,
                      isLoading>>
  /\ Called("startCreating") =>
       /\ isCreating' = TRUE
       /\ selectedRecipeId' = null
       /\ UNCHANGED <<recipes, isEditing, searchTerm, filterCategory,
                      isLoading>>
  /\ Called("startEditing") =>
       /\ isEditing' = TRUE
       /\ UNCHANGED <<recipes, selectedRecipeId, isCreating, searchTerm,
                      filterCategory, isLoading>>
  /\ Called("finishEditing") =>
       /\ isEditing' = FALSE
       /\ UNCHANGED <<recipes, selectedRecipeId, isCreating, searchTerm,
                      filterCategory, isLoading>>
  /\ Called("cancelCreating") =>
       /\ isCreating' = FALSE
       /\ UNCHANGED <<recipes, selectedRecipeId, isEditing, searchTerm,
                      filterCategory, isLoading>>
  /\ Called("setSearchTerm") =>
       /\ searchTerm' = last'.data
       /\ UNCHANGED <<recipes, selectedRecipeId, isEditing, isCreating,
                      filterCategory, isLoading>>
  /\ Called("setFilterCategory") =>
       /\ filterCategory' = last'.data
       /\ UNCHANGED <<recipes, selectedRecipeId, isEditing, isCreating,
                      searchTerm, isLoading>>
C19_UISettersExact == [][C19_Step]_vars

\* startCreating was called while a recipe was selected and being edited:
\* the selection is gone, the edit mode and the recipe are there
C19_Witness ==
  /\ last.op = "startCreating"
  /\ ~last.selected
  /\ selectedRecipeId = null
  /\ isCreating
  /\ isEditing
  /\ Len(recipes) = 1

\* the fields every Recipe has, and a state of the store's type: recipes
\* with all their fields, the lists being lists of objects with an id
RecipeFields == {"id", "title", "ingredients", "instructions", "isFavorite",
                 "dateCreated", "dateModified"}
WellFormed ==
  /\ \A i \in 1..Len(recipes) :
        /\ RecipeFields \subseteq DOMAIN recipes[i]
        /\ \A j \in 1..Len(recipes[i].ingredients) :
              "id" \in DOMAIN recipes[i].ingredients[j]
        /\ \A j \in 1..Len(recipes[i].instructions) :
              "id" \in DOMAIN recipes[i].instructions[j]
        /\ recipes[i].isFavorite \in BOOLEAN
  /\ isEditing \in BOOLEAN /\ isCreating \in BOOLEAN /\ isLoading \in BOOLEAN
  /\ selectedRecipeId \in {null} \cup CallerIds

\* every action can be called with every argument
AllEnabled ==
  /\ \A recipeData \in RecipeData : ENABLED createRecipe(recipeData)
  /\ \A id \in CallerIds :
        /\ \A recipeData \in PartialRecipe \cup PartialUndefined :
              ENABLED updateRecipe(id, recipeData)
        /\ ENABLED deleteRecipe(id)
        /\ ENABLED toggleFavorite(id)
        /\ \A data \in IngredientData : ENABLED addIngredient(id, data)
        /\ \A data \in InstructionData : ENABLED addInstruction(id, data)
        /\ \A sub \in CallerIds :
              /\ \A data \in PartialIngredient :
                    ENABLED updateIngredient(id, sub, data)
              /\ \A data \in PartialInstruction :
                    ENABLED updateInstruction(id, sub, data)
              /\ ENABLED removeIngredient(id, sub)
              /\ ENABLED removeInstruction(id, sub)
  /\ \A id \in {null} \cup CallerIds : ENABLED selectRecipe(id)
  /\ ENABLED startEditing /\ ENABLED finishEditing
  /\ ENABLED startCreating /\ ENABLED cancelCreating
  /\ \A term \in SearchTerms : ENABLED setSearchTerm(term)
  /\ \A category \in Categories : ENABLED setFilterCategory(category)

\* C20: in every reachable state every action can be called with every
\* argument, ids of no recipe, ingredient or instruction and a null
\* selection included; no call throws, and the state a call leaves is a state
\* of the store's type.
C20_OperationsTotal ==
  /\ calls < MaxCalls => AllEnabled
  /\ ~last.threw
  /\ WellFormed

\* C21: every change of the store's state is one whole call: no state is
\* seen, by a reader or by a remote update between two calls, in which
\* createRecipe has appended its recipe but not yet selected it or cleared
\* isCreating, or deleteRecipe has removed its recipe but not yet cleared
\* the selection.
C21_Step ==
  <<recipes, selectedRecipeId, ui>>' # <<recipes, selectedRecipeId, ui>> =>
    /\ calls' = calls + 1
    /\ last'.op = "createRecipe" =>
         /\ Len(recipes') = Len(recipes) + 1
         /\ selectedRecipeId' = recipes'[Len(recipes')].id
         /\ isCreating' = FALSE
    /\ last'.op = "deleteRecipe" =>
         /\ last'.id \notin Ids(recipes')
         /\ selectedRecipeId' # last'.id
C21_OneStateReplacementPerAction == [][C21_Step]_vars

\* a remote update came right after createRecipe had been called while
\* another recipe was selected: the state it replaced had the new recipe
\* last and selected
C21_Witness ==
  /\ last.op = "remoteUpdate"
  /\ Len(last.before) = 2
  /\ selectedRecipeId = last.before[2].id
  /\ selectedRecipeId # last.before[1].id
  /\ ~isCreating

\* the local calls that change recipes
LocalMutations ==
  {"createRecipe", "updateRecipe", "deleteRecipe", "toggleFavorite",
   "addIngredient", "updateIngredient", "removeIngredient",
   "addInstruction", "updateInstruction", "removeInstruction"}

\* C22: the local mutation that follows a remote update is computed from
\* the delivered snapshot: every recipe of the snapshot that the mutation
\* does not target is in the collection afterwards, unchanged.
C22_Step ==
  /\ last.op = "remoteUpdate"
  /\ calls' = calls + 1
  /\ last'.op \in LocalMutations
  => \A i \in 1..Len(last.data) :
        last.data[i].id # last'.id => arrayIncludes(recipes', last.data[i])
C22_MutationFromDeliveredSnapshot == [][C22_Step]_vars

\* after a remote update added a recipe, the local recipe was toggled: the
\* remote recipe is there, the local one is a favorite
C22_Witness ==
  /\ last.op = "toggleFavorite"
  /\ last.found
  /\ Len(recipes) = 2
  /\ recipes[1].id = last.id
  /\ recipes[1].isFavorite
  /\ recipes[2] = RemoteRecipe

\* C23: createRecipe validates nothing: called with a recipe without title,
\* ingredients or instructions it stores the recipe, and the fields the
\* caller gave are in the stored recipe as they were given.
C23_Step ==
  Called("createRecipe") =>
    /\ Len(recipes') = Len(recipes) + 1
    /\ Without(recipes'[Len(recipes')], {"id", "dateCreated", "dateModified"})
         = last'.data
C23_CreateStoresAsGiven == [][C23_Step]_vars

\* a recipe with an empty title and no ingredient or instruction was stored
C23_Witness ==
  /\ last.op = "createRecipe"
  /\ last.data.title = ""
  /\ Len(recipes) = 2
  /\ recipes[2].title = ""
  /\ recipes[2].ingredients = <<>>
  /\ recipes[2].instructions = <<>>
  /\ selectedRecipeId = recipes[2].id

\* the form passes: a title that is not blank, at least one ingredient and
\* no ingredient with a blank name, at least one instruction and no
\* instruction with a blank text
StatedValid(f) ==
  /\ trim(f.title) # <<>>
  /\ Len(f.ingredients) >= 1
  /\ \A i \in 1..Len(f.ingredients) : trim(f.ingredients[i].name) # <<>>
  /\ Len(f.instructions) >= 1
  /\ \A i \in 1..Len(f.instructions) : trim(f.instructions[i].text) # <<>>

\* C24: handleSubmit calls createRecipe only when the form passes, and then
\* with the instructions numbered 1..n in the order of the form and
\* isFavorite false; when the form does not pass it leaves the store as it
\* is.
C24_Step ==
  /\ Called("createRecipe") =>
       /\ StatedValid(form)
       /\ Len(recipes') = Len(recipes) + 1
       /\ LET recipe == recipes'[Len(recipes')] IN
            /\ recipe.isFavorite = FALSE
            /\ Len(recipe.instructions) = Len(form.instructions)
            /\ \A i \in 1..Len(recipe.instructions) :
                  /\ recipe.instructions[i].stepNumber = i
                  /\ recipe.instructions[i].text
                       = trim(form.instructions[i].text)
  /\ Called("handleSubmit") =>
       /\ ~StatedValid(form)
       /\ UNCHANGED <<recipes, selectedRecipeId, ui>>
C24_SubmitValidates == [][C24_Step]_vars

\* a form with two instructions was submitted: the recipe has steps 1 and 2
\* in the form's order and is no favorite
C24_Witness ==
  /\ last.op = "createRecipe"
  /\ Len(recipes) = 1
  /\ recipes[1].title = Pie
  /\ ~recipes[1].isFavorite
  /\ Len(recipes[1].instructions) = 2
  /\ recipes[1].instructions[1].stepNumber = 1
  /\ recipes[1].instructions[1].text = Mix
  /\ recipes[1].instructions[2].stepNumber = 2
  /\ recipes[1].instructions[2].text = Bake
  /\ form.instructions[2].text = <<" ">> \o Bake

\* the text is blank, does not parse, or gives no title, no array of
\* ingredients or no array of instructions
StatedRejected(text) ==
  \/ trim(text) = <<>>
  \/ JSONparse(text).type # "object"
  \/ LET o == JSONparse(text).object IN
       \/ ~Has(o, "title") \/ o.title = <<>>
       \/ ~Has(o, "ingredients") \/ ~o.ingredients.isArray
       \/ ~Has(o, "instructions") \/ ~o.instructions.isArray

\* the text gives a recipe of the expected type: none of the above, and
\* objects in its arrays
StatedWellTyped(text) ==
  /\ ~StatedRejected(text)
  /\ LET o == JSONparse(text).object IN
       /\ Mapped(o.ingredients.items) = o.ingredients.items
       /\ Mapped(o.instructions.items) = o.instructions.items

\* C25: handleJsonParse on a text that is blank, does not parse, or lacks a
\* title or an array of ingredients or instructions sets an error message
\* and leaves the fields of the form and the tab as they were; on a recipe
\* it clears the error and shows the manual tab; it never calls
\* createRecipe.
C25_Step ==
  Called("handleJsonParse") =>
    /\ UNCHANGED <<recipes, selectedRecipeId, ui>>
    /\ StatedRejected(form.jsonInput) =>
         /\ form'.jsonError # nullError
         /\ form' = [form EXCEPT !.jsonError = form'.jsonError]
    /\ StatedWellTyped(form.jsonInput) =>
         /\ form'.jsonError = nullError
         /\ form'.creationMode = "manual"
         /\ form'.title = JSONparse(form.jsonInput).object.title
C25_ImportRejectsOrFills == [][C25_Step]_vars

\* a text with ingredients that are no array was imported into a form with
\* a title: the error is set, the title and the tab are as they were
C25_Witness ==
  /\ last.op = "handleJsonParse"
  /\ StatedRejected(last.data)
  /\ JSONparse(last.data).type = "object"
  /\ Has(JSONparse(last.data).object, "title")
  /\ form.jsonError = Failed("Missing or invalid field: ingredients")
  /\ form.title = <<" ">> \o Pie \o <<" ">>
  /\ form.jsonInput = last.data
  /\ form.creationMode = "llm"
  /\ recipes = <<>>

\* ---------------------------------------------------------------- C26
\* s without the elements whose id is id: nothing with that id is left,
\* everything else is kept as it was and in its order.
IsWithoutId(t, s, id) ==
  /\ IsSubsequence(t, s)
  /\ id \notin Ids(t)
  /\ Len(t) = Cardinality({i \in 1..Len(s) : s[i].id # id})

\* C26: deleteRecipe(id) removes exactly the recipes whose id is id and
\* keeps every other recipe unchanged and in its original relative order;
\* it is idempotent: a second deleteRecipe(id) on the resulting state
\* would leave the collection and the selection as they are.
C26_Step ==
  Called("deleteRecipe") =>
    /\ IsWithoutId(recipes', recipes, last'.id)
    /\ deleteRecipeOp(recipes', last'.id) = recipes'
    /\ deleteSelection(selectedRecipeId', last'.id) = selectedRecipeId'

C26_DeleteRemovesExactlyThatId == [][C26_Step]_vars

\* One of two recipes was deleted; the other, which is selected, remains.
C26_Witness ==
  /\ last.op = "deleteRecipe"
  /\ last.found
  /\ ~last.selected
  /\ Len(recipes) = 1
  /\ recipes[1].id # last.id
  /\ selectedRecipeId = recipes[1].id

\* ---------------------------------------------------------------- C27
RemoveOps == {"removeIngredient", "removeInstruction"}
MergeOps == {"updateIngredient", "updateInstruction"}
OwnList(op) ==
  IF op \in {"removeIngredient", "updateIngredient"}
  THEN "ingredients" ELSE "instructions"
OtherList(op) ==
  IF op \in {"removeIngredient", "updateIngredient"}
  THEN "instructions" ELSE "ingredients"

\* t is s with data merged into the elements whose id is id, every element
\* at its position and the others as they were
IsMergedAt(t, s, id, data) ==
  /\ Len(t) = Len(s)
  /\ \A j \in 1..Len(s) :
       IF s[j].id = id
       THEN /\ DOMAIN t[j] = (DOMAIN s[j]) \cup (DOMAIN data)
            /\ \A k \in DOMAIN data : t[j][k] = data[k]
            /\ \A k \in (DOMAIN s[j]) \ (DOMAIN data) : t[j][k] = s[j][k]
       ELSE t[j] = s[j]

\* C27: removeIngredient and removeInstruction remove from the recipe with
\* the given id exactly the sub-entity with the given sub-entity id and keep
\* the order of the rest; updateIngredient and updateInstruction merge the
\* partial data into exactly that sub-entity, at its position; every other
\* recipe, and the other sub-entity list of the target recipe, is unchanged.
C27_Step ==
  \A op \in RemoveOps \cup MergeOps :
    Called(op) =>
      /\ Len(recipes') = Len(recipes)
      /\ \A i \in 1..Len(recipes) :
           IF recipes[i].id = last'.id
           THEN /\ recipes'[i][OtherList(op)] = recipes[i][OtherList(op)]
                /\ op \in RemoveOps =>
                     IsWithoutId(recipes'[i][OwnList(op)],
                                 recipes[i][OwnList(op)], last'.sub)
                /\ op \in MergeOps =>
                     IsMergedAt(recipes'[i][OwnList(op)],
                                recipes[i][OwnList(op)], last'.sub,
                                last'.data)
           ELSE recipes'[i] = recipes[i]

C27_SubEntityOpsScoped == [][C27_Step]_vars

\* Of the two ingredients of a recipe the one with the given id was removed;
\* the instruction of that recipe, which has the same id, is still there.
C27_Witness ==
  /\ last.op = "removeIngredient"
  /\ \E i \in 1..Len(recipes) :
       /\ recipes[i].id = last.id
       /\ Len(recipes[i].ingredients) = 1
       /\ recipes[i].ingredients[1].id # last.sub
       /\ Len(recipes[i].instructions) = 1
       /\ recipes[i].instructions[1].id = last.sub

\* ---------------------------------------------------------------- C28
SubEntityOps ==
  {"addIngredient", "updateIngredient", "removeIngredient",
   "addInstruction", "updateInstruction", "removeInstruction"}

\* C28: updateRecipe, toggleFavorite and the six ingredient and instruction
\* operations leave selectedRecipeId, isEditing, isCreating, searchTerm,
\* filterCategory and isLoading unchanged; deleteRecipe leaves all of them
\* unchanged except possibly selectedRecipeId; createRecipe leaves isEditing,
\* searchTerm, filterCategory and isLoading unchanged.
C28_Step ==
  /\ \A op \in {"updateRecipe", "toggleFavorite"} \cup SubEntityOps :
       Called(op) =>
         UNCHANGED <<selectedRecipeId, isEditing, isCreating, searchTerm,
                     filterCategory, isLoading>>
  /\ Called("deleteRecipe") =>
       UNCHANGED <<isEditing, isCreating, searchTerm, filterCategory,
                   isLoading>>
  /\ Called("createRecipe") =>
       UNCHANGED <<isEditing, searchTerm, filterCategory, isLoading>>

C28_DataMutationsKeepUiState == [][C28_Step]_vars

\* The selected recipe was updated while it was being edited: it is still
\* selected and still being edited.
C28_Witness ==
  /\ last.op = "updateRecipe"
  /\ last.found
  /\ selectedRecipeId = last.id
  /\ isEditing
  /\ ~isCreating

\* ---------------------------------------------------------------- C29
\* C29: in every reachable state, isEditing = TRUE implies that
\* selectedRecipeId is not null; in particular after deleteRecipe of the
\* selected recipe, or after startCreating, while editing.
C29_EditingImpliesSelection == isEditing => selectedRecipeId # null

\* ---------------------------------------------------------------- C30
\* C30: a render of RecipeDetail leaves the store's recipe collection
\* unchanged, the stored order of the recipe's instructions included, also
\* when they are not stored in the order of their stepNumber.
C30_Step == last'.op = "RecipeDetail" => recipes' = recipes

C30_RenderLeavesStoreUnchanged == [][C30_Step]_vars

====
